---- MODULE Spec2Model ----
(***************************************************************************)
(* ColorSort: the puzzle engine of src/game/game_logic.py and the session  *)
(* loop of src/game/main.py.                                               *)
(*                                                                         *)
(* A board ("stacks") is a sequence of tubes; a tube is a sequence of      *)
(* colours whose last element is the top.  Python indices are 0-based and  *)
(* may be negative; TLA+ sequences are 1-based, so Resolve maps a Python   *)
(* index to a position.                                                    *)
(***************************************************************************)
EXTENDS Integers, Sequences, FiniteSets, TLC

\* ------------------------------------------------------------ constants.py

MAX_STACK_SIZE == 4
MIN_STACKS == 5
MAX_STACKS == 9

\* The palette: seven distinct opaque strings (ANSI-coloured blanks in the source).
COLORS == <<"RED", "GREEN", "BLUE", "CYAN", "MAGENTA", "YELLOW", "WHITE">>

\* ------------------------------------------------------------------ bounds

\* How many of the sampled shuffle outcomes a session may start from.
MaxBoards == 2
\* Commands read at the prompt in one game.
MaxSteps == 4
\* How many of the sampled calls of best_solve are run.
MaxSolves == 8
\* Tubes of the boards win detection is compared on, beside the session's boards.
WinTubes == 2

\* The largest move count given to rate_solution.
MaxRate == 12
\* The largest num_stacks initialize_game is followed for.
MaxGenStacks == 5

\* ----------------------------------------------------------------- helpers

Front(s) == SubSeq(s, 1, Len(s) - 1)

Last(s) == s[Len(s)]

Range(s) == {s[i] : i \in DOMAIN s}

\* len(set(stack)) == 1, all(x == stack[0] for x in stack): one colour only.
Uniform(stack) == \A i \in DOMAIN stack : stack[i] = stack[1]

\* Number of occurrences of colour c on the board.
CountIn(stack, c) == Cardinality({i \in DOMAIN stack : stack[i] = c})

RECURSIVE SumCount(_, _, _)
SumCount(stacks, c, k) ==
    IF k = 0 THEN 0 ELSE CountIn(stacks[k], c) + SumCount(stacks, c, k - 1)

\* The multiset of tokens of a board, as a function colour -> count.
Tokens(stacks) == [c \in Range(COLORS) |-> SumCount(stacks, c, Len(stacks))]

\* -------------------------------------------------------- initialize_game

\* selected_colors * MAX_STACK_SIZE: the unshuffled pool for num_stacks tubes.
color_pool(num_stacks) ==
    LET num_colors == num_stacks - 2
    IN  [i \in 1 .. num_colors * MAX_STACK_SIZE |-> COLORS[((i - 1) % num_colors) + 1]]

IsPermutationOf(p, q) ==
    /\ Len(p) = Len(q)
    /\ \A c \in Range(q) \cup Range(p) : CountIn(p, c) = CountIn(q, c)

\* The draw loop on a pool in which no drawn stack is uniform: each stack takes
\* MAX_STACK_SIZE tokens popped from the end of the pool; two empty stacks follow.
RECURSIVE DrawStacks(_)
DrawStacks(pool) ==
    IF pool = <<>> THEN <<>>
    ELSE LET n == Len(pool)
             k == IF n < MAX_STACK_SIZE THEN n ELSE MAX_STACK_SIZE
             stack == [i \in 1 .. k |-> pool[n + 1 - i]]
         IN  <<stack>> \o DrawStacks(SubSeq(pool, 1, n - k))

initialize_game(pool) == DrawStacks(pool) \o << <<>>, <<>> >>

\* Outcomes of random.shuffle(color_pool) the model draws from, written with
\* palette indices, last element popped first.
ShuffleSamples ==
    << <<3, 3, 3, 2,  3, 2, 2, 1,  2, 1, 1, 1>>,
       <<3, 2, 2, 2,  3, 3, 3, 1,  2, 1, 1, 1>>,
       <<1, 1, 2, 3,  2, 3, 1, 1,  3, 3, 2, 2>>,
       <<2, 2, 3, 1,  1, 2, 1, 1,  3, 3, 2, 3>>,
       <<2, 1, 2, 1,  3, 3, 2, 2,  1, 3, 1, 3>>,
       <<1, 1, 3, 2,  2, 3, 3, 1,  2, 1, 3, 2>>,
       <<2, 1, 3, 2,  3, 1, 3, 1,  3, 2, 1, 2>>,
       <<2, 1, 3, 1,  3, 1, 2, 3,  2, 1, 2, 3>>,
       <<4, 2, 3, 4,  3, 1, 1, 2,  4, 1, 2, 3,  4, 3, 2, 1>> >>

Shuffle(i) == [k \in DOMAIN ShuffleSamples[i] |-> COLORS[ShuffleSamples[i][k]]]

\* The boards initialize_game returns on the sampled shuffles: a shuffle whose
\* draw meets a uniform stack is reshuffled by the source and is no outcome here.
IsShuffleOutcome(j) ==
    /\ j \in DOMAIN ShuffleSamples
    /\ \E n \in MIN_STACKS .. MAX_STACKS : IsPermutationOf(Shuffle(j), color_pool(n))
    /\ \A t \in Range(DrawStacks(Shuffle(j))) : ~Uniform(t)

GeneratedBoards ==
    {initialize_game(Shuffle(i)) : i \in {j \in 1 .. MaxBoards : IsShuffleOutcome(j)}}

\* ----------------------------------------------------------- process_move

\* Python list indexing: stacks[i] for -len <= i < len, IndexError otherwise.
InRange(stacks, i) == -Len(stacks) <= i /\ i < Len(stacks)

Resolve(stacks, i) == IF i < 0 THEN i + Len(stacks) + 1 ELSE i + 1

\* Mutant of PourOne: the token is appended but never popped from the source.
PourOne_NoPop(stacks, si, di) ==
    [stacks EXCEPT ![di] = Append(@, Last(stacks[si]))]

\* One iteration's body: destination_stack.append(source_stack.pop()).
PourOne(stacks, si, di) ==
    LET token  == Last(stacks[si])
        popped == [stacks EXCEPT ![si] = Front(@)]
    IN  [popped EXCEPT ![di] = Append(@, token)]

\* Mutant of PourLoop: the loop does not test the destination's length.
RECURSIVE PourLoop_NoRoomTest(_, _, _, _)
PourLoop_NoRoomTest(stacks, si, di, flag) ==
    IF stacks[di] = <<>> \/ Last(stacks[si]) = Last(stacks[di])
    THEN LET next == PourOne(stacks, si, di)
         IN  IF next[si] = <<>>
             THEN [flag |-> TRUE, stacks |-> next, diverges |-> FALSE]
             ELSE IF flag /\ next = stacks
             THEN [flag |-> TRUE, stacks |-> next, diverges |-> TRUE]
             ELSE PourLoop_NoRoomTest(next, si, di, TRUE)
    ELSE [flag |-> flag, stacks |-> stacks, diverges |-> FALSE]

\* Mutant of PourLoop: the two top colours are compared with != in place of ==.
RECURSIVE PourLoop_OtherColour(_, _, _, _)
PourLoop_OtherColour(stacks, si, di, flag) ==
    IF /\ (stacks[di] = <<>> \/ Last(stacks[si]) # Last(stacks[di]))
       /\ Len(stacks[di]) # MAX_STACK_SIZE
    THEN LET next == PourOne(stacks, si, di)
         IN  IF next[si] = <<>>
             THEN [flag |-> TRUE, stacks |-> next, diverges |-> FALSE]
             ELSE IF flag /\ next = stacks
             THEN [flag |-> TRUE, stacks |-> next, diverges |-> TRUE]
             ELSE PourLoop_OtherColour(next, si, di, TRUE)
    ELSE [flag |-> flag, stacks |-> stacks, diverges |-> FALSE]

\* Mutant of PourLoop: an if in place of the while, one token per call.
PourLoop_SingleToken(stacks, si, di, flag) ==
    IF /\ (stacks[di] = <<>> \/ Last(stacks[si]) = Last(stacks[di]))
       /\ Len(stacks[di]) # MAX_STACK_SIZE
    THEN [flag |-> TRUE, stacks |-> PourOne(stacks, si, di), diverges |-> FALSE]
    ELSE [flag |-> flag, stacks |-> stacks, diverges |-> FALSE]

\* The while loop of lines 86-91 on positions si, di.  A second iteration that
\* finds the state of the one before it repeats forever: diverges.
RECURSIVE PourLoop(_, _, _, _)
PourLoop(stacks, si, di, flag) ==
    IF /\ (stacks[di] = <<>> \/ Last(stacks[si]) = Last(stacks[di]))
       /\ Len(stacks[di]) # MAX_STACK_SIZE
    THEN LET next == PourOne(stacks, si, di)
         IN  IF next[si] = <<>>
             THEN [flag |-> TRUE, stacks |-> next, diverges |-> FALSE]
             ELSE IF flag /\ next = stacks
             THEN [flag |-> TRUE, stacks |-> next, diverges |-> TRUE]
             ELSE PourLoop(next, si, di, TRUE)
    ELSE [flag |-> flag, stacks |-> stacks, diverges |-> FALSE]

\* Mutant of process_move: the snapshot is replaced without testing flag.
process_move_AlwaysSnapshot(stacks, source, destination, previous_state) ==
    IF ~InRange(stacks, source) \/ ~InRange(stacks, destination)
    THEN [flag |-> FALSE, stacks |-> stacks, previous_state |-> previous_state,
          raised |-> TRUE, diverges |-> FALSE]
    ELSE LET si == Resolve(stacks, source)
             di == Resolve(stacks, destination)
         IN  IF \/ stacks[si] = <<>>
                \/ Len(stacks[di]) = MAX_STACK_SIZE
                \/ source = destination
             THEN [flag |-> FALSE, stacks |-> stacks, previous_state |-> previous_state,
                   raised |-> FALSE, diverges |-> FALSE]
             ELSE LET initial_state == stacks
                      r == PourLoop(stacks, si, di, FALSE)
                  IN  [flag |-> r.flag, stacks |-> r.stacks,
                       previous_state |-> initial_state,
                       raised |-> FALSE, diverges |-> r.diverges]

\* Mutant of process_move: the snapshot is taken after the loop.
process_move_SnapshotAfter(stacks, source, destination, previous_state) ==
    IF ~InRange(stacks, source) \/ ~InRange(stacks, destination)
    THEN [flag |-> FALSE, stacks |-> stacks, previous_state |-> previous_state,
          raised |-> TRUE, diverges |-> FALSE]
    ELSE LET si == Resolve(stacks, source)
             di == Resolve(stacks, destination)
         IN  IF \/ stacks[si] = <<>>
                \/ Len(stacks[di]) = MAX_STACK_SIZE
                \/ source = destination
             THEN [flag |-> FALSE, stacks |-> stacks, previous_state |-> previous_state,
                   raised |-> FALSE, diverges |-> FALSE]
             ELSE LET initial_state == stacks
                      r == PourLoop(stacks, si, di, FALSE)
                  IN  [flag |-> r.flag, stacks |-> r.stacks,
                       previous_state |-> IF r.flag THEN r.stacks ELSE previous_state,
                       raised |-> FALSE, diverges |-> r.diverges]

\* process_move(stacks, source, destination, previous_state): the returned flag
\* and previous_state, the board as mutated in place, and whether the call
\* raised IndexError or never returns.
process_move(stacks, source, destination, previous_state) ==
    IF ~InRange(stacks, source) \/ ~InRange(stacks, destination)
    THEN [flag |-> FALSE, stacks |-> stacks, previous_state |-> previous_state,
          raised |-> TRUE, diverges |-> FALSE]
    ELSE LET si == Resolve(stacks, source)
             di == Resolve(stacks, destination)
         IN  IF \/ stacks[si] = <<>>
                \/ Len(stacks[di]) = MAX_STACK_SIZE
                \/ source = destination
             THEN [flag |-> FALSE, stacks |-> stacks, previous_state |-> previous_state,
                   raised |-> FALSE, diverges |-> FALSE]
             ELSE LET initial_state == stacks
                      r == PourLoop(stacks, si, di, FALSE)
                  IN  [flag |-> r.flag, stacks |-> r.stacks,
                       previous_state |-> IF r.flag THEN initial_state ELSE previous_state,
                       raised |-> FALSE, diverges |-> r.diverges]

\* ---------------------------------------------------------------- parse_move

\* parse_move on a command of two tube numbers: each minus one.
parse_move(a, b) == <<a - 1, b - 1>>

\* -------------------------------------------------------- check_win_condition

\* Mutant of check_win_condition: the length of a tube is not tested.
check_win_condition_NoLength(stacks) ==
    \A i \in DOMAIN stacks :
        stacks[i] # <<>> =>
            \A k \in DOMAIN stacks[i] : stacks[i][k] = stacks[i][1]

check_win_condition(stacks) ==
    \A i \in DOMAIN stacks :
        stacks[i] # <<>> =>
            /\ \A k \in DOMAIN stacks[i] : stacks[i][k] = stacks[i][1]
            /\ Len(stacks[i]) = MAX_STACK_SIZE


\* ------------------------------------------------------------ rate_solution

\* Mutant of rate_solution: the stars are not raised to 1.
rate_solution_NoClamp(user, optimal) ==
    IF user <= optimal THEN 5
    ELSE ((100 * optimal + user) \div (2 * user)) \div 10

\* rate_solution: 5 when user_moves <= optimal_moves; otherwise
\* int(max(1.0, round(5 * optimal_moves / user_moves, 1))). round(x, 1) is x to
\* the nearest tenth and int() drops the fraction; the tenths are computed here
\* as an integer. A tie between two tenths changes the integer part only at
\* x = k.95, which needs user_moves to be a multiple of 100.
rate_solution(user, optimal) ==
    IF user <= optimal THEN 5
    ELSE LET tenths  == (100 * optimal + user) \div (2 * user)
             clamped == IF tenths < 10 THEN 10 ELSE tenths
         IN  clamped \div 10

\* ------------------------------------------------------------- best_solve

\* None, as a value no path equals.
None == "None"

\* compress_state: the tuple of tuples of a board; a sequence of sequences is one.
compress_state(board) == board

\* The pairs (source_index, destination_index) in the order of the two nested
\* enumerate loops.
IndexPairs(board) ==
    LET n == Len(board)
    IN  [k \in 1 .. n * n |-> <<(k - 1) \div n, (k - 1) % n>>]

\* Mutant of get_valid_moves: every move into an empty stack is skipped, whatever
\* the source.
get_valid_moves_NoEmptyTarget(board, previous_move) ==
    LET Keep(m) ==
            LET source_stack == board[m[1] + 1]
                destination_stack == board[m[2] + 1]
            IN  /\ source_stack # <<>>
                /\ m[1] # m[2]
                /\ ~(previous_move # None /\ previous_move[1] = m[2] /\ previous_move[2] = m[1])
                /\ destination_stack # <<>>
                /\ ~(Uniform(source_stack) /\
                        MAX_STACK_SIZE - Len(destination_stack) < Len(source_stack))
                /\ Last(source_stack) = Last(destination_stack)
                /\ Len(destination_stack) < MAX_STACK_SIZE
    IN  SelectSeq(IndexPairs(board), Keep)

\* get_valid_moves(stacks, previous_move): the candidate moves, in order.
get_valid_moves(board, previous_move) ==
    LET Keep(m) ==
            LET source_stack == board[m[1] + 1]
                destination_stack == board[m[2] + 1]
                clean_stack_flag == Uniform(source_stack)
            IN  /\ source_stack # <<>>
                /\ m[1] # m[2]
                /\ ~(previous_move # None /\ previous_move[1] = m[2] /\ previous_move[2] = m[1])
                /\ ~(clean_stack_flag /\
                        (\/ destination_stack = <<>>
                         \/ MAX_STACK_SIZE - Len(destination_stack) < Len(source_stack)))
                /\ (destination_stack = <<>> \/ Last(source_stack) = Last(destination_stack))
                /\ Len(destination_stack) < MAX_STACK_SIZE
    IN  SelectSeq(IndexPairs(board), Keep)

\* Mutant of PathStep: the pair is recorded as (dst, src).
PathStep_Swapped(path, src, dst) == Append(path, <<dst, src>>)

\* path + [(src, dst)]
PathStep(path, src, dst) == Append(path, <<src, dst>>)

\* Lines 193-196 for one dequeued node: the queue entries of its successors, in
\* the order of the candidate moves; process_move is called with its default
\* previous_state, [].
RECURSIVE Successors(_, _, _)
Successors(board, path, candidates) ==
    IF candidates = <<>> THEN <<>>
    ELSE LET m == Head(candidates)
             r == process_move(board, m[1], m[2], <<>>)
             rest == Successors(board, path, Tail(candidates))
         IN  IF r.flag
             THEN <<[stacks |-> r.stacks, path |-> PathStep(path, m[1], m[2])]>> \o rest
             ELSE rest

\* Mutant of Enqueue: the new entries go to the left end, where popleft takes them.
Enqueue_Left(queue, entries) == entries \o queue

\* queue.append, for each entry in turn.
Enqueue(queue, entries) == queue \o entries

\* A recorded sequence of pours applied to a board with process_move: the board
\* reached, and whether every pour succeeded.
RECURSIVE Replay(_, _)
Replay(board, pours) ==
    IF pours = <<>> THEN [ok |-> TRUE, stacks |-> board]
    ELSE LET r == process_move(board, Head(pours)[1], Head(pours)[2], <<>>)
         IN  IF r.flag /\ ~r.diverges /\ ~r.raised
             THEN Replay(r.stacks, Tail(pours))
             ELSE [ok |-> FALSE, stacks |-> r.stacks]

\* The sampled calls of best_solve: at game start (initialize, no pours) on the
\* board of a sampled shuffle, or by the hint command after the given pours.
SolveSamples ==
    << [shuffle |-> 2, pours |-> <<>>],
       [shuffle |-> 9, pours |-> << <<2, 4>>, <<2, 5>> >>],
       [shuffle |-> 1, pours |-> <<>>],
       [shuffle |-> 2, pours |-> << <<0, 3>>, <<1, 4>> >>],
       [shuffle |-> 3, pours |-> <<>>],
       [shuffle |-> 5, pours |-> <<>>],
       [shuffle |-> 7, pours |-> <<>>],
       [shuffle |-> 8, pours |-> <<>>],
       [shuffle |-> 4, pours |-> <<>>],
       [shuffle |-> 6, pours |-> <<>>],
       [shuffle |-> 1, pours |-> << <<0, 3>>, <<1, 4>> >>] >>

IsSolveInput(k) ==
    /\ k \in DOMAIN SolveSamples
    /\ IsShuffleOutcome(SolveSamples[k].shuffle)
    /\ Replay(initialize_game(Shuffle(SolveSamples[k].shuffle)), SolveSamples[k].pours).ok

SolveInput(k) ==
    Replay(initialize_game(Shuffle(SolveSamples[k].shuffle)), SolveSamples[k].pours).stacks

\* ------------------------------------------------------------ main: session

VARIABLES
    stacks,           \* the current board
    original_stacks,  \* the board generated at game start
    previous_state,   \* the snapshot undo restores
    moves,            \* the recorded moves, as parsed (0-based, possibly -1)
    pc,               \* "play": at the prompt; "exit": loop left; "hung": inside a call that never returns
    last,             \* history: the kind of the last command
    run,              \* history: the successful pours made since the last other command (the last two)
    steps,            \* history: the commands read in this game
    initial_stacks,   \* best_solve: its argument
    queue,            \* best_solve: the deque of (stacks, path)
    visited,          \* best_solve: the set of state keys
    result,           \* best_solve: the value returned
    solve_pc,         \* best_solve: "idle", "loop" (at the while test), "done" (returned)
    user_moves,       \* rate_solution: its first argument
    optimal_moves,    \* rate_solution: its second argument
    rating,           \* rate_solution: the value returned
    rate_pc,          \* rate_solution: "idle", "call", "done"
    num_stacks,       \* initialize_game: its argument
    pool,             \* initialize_game: color_pool, the tokens not yet in an accepted stack
    drawn,            \* initialize_game: stacks
    gen_pc            \* initialize_game: "idle", "draw" (at the outer while test), "done" (returned)

session_vars == <<stacks, original_stacks, previous_state, moves, pc, last, run, steps>>

solve_vars == <<initial_stacks, queue, visited, result, solve_pc>>

rate_vars == <<user_moves, optimal_moves, rating, rate_pc>>

gen_vars == <<num_stacks, pool, drawn, gen_pc>>

vars == <<session_vars, solve_vars, rate_vars, gen_vars>>

\* The variables a session leaves alone, and those a call of best_solve does.
not_session_vars == <<solve_vars, rate_vars, gen_vars>>

not_solve_vars == <<session_vars, rate_vars, gen_vars>>

\* No call of best_solve is followed.
SolveIdle ==
    /\ initial_stacks = <<>>
    /\ queue = <<>>
    /\ visited = {}
    /\ result = None
    /\ solve_pc = "idle"

\* No call of rate_solution is followed.
RateIdle ==
    /\ user_moves = 0
    /\ optimal_moves = 0
    /\ rating = 0
    /\ rate_pc = "idle"

\* No call of initialize_game is followed.
GenIdle ==
    /\ num_stacks = 0
    /\ pool = <<>>
    /\ drawn = <<>>
    /\ gen_pc = "idle"

\* initialize(): a generated board and two copies of it, no moves.
initialize(board) ==
    /\ stacks' = board
    /\ original_stacks' = board
    /\ previous_state' = board
    /\ moves' = <<>>
    /\ last' = "none"
    /\ run' = <<>>
    /\ steps' = 0

Init ==
    /\ stacks \in GeneratedBoards
    /\ original_stacks = stacks
    /\ previous_state = stacks
    /\ moves = <<>>
    /\ pc = "play"
    /\ last = "none"
    /\ run = <<>>
    /\ steps = 0
    /\ SolveIdle
    /\ RateIdle
    /\ GenIdle

\* The prompt is reached only when the board shown is not won.
AtPrompt == pc = "play" /\ ~check_win_condition(stacks) /\ steps < MaxSteps

\* Won board, answer Y or empty: a new game.
WinNewGame ==
    /\ UNCHANGED not_session_vars
    /\ pc = "play" /\ check_win_condition(stacks)
    /\ \E board \in GeneratedBoards : initialize(board)
    /\ pc' = pc

\* Won board, any other answer: the loop is left.
WinQuit ==
    /\ UNCHANGED not_session_vars
    /\ pc = "play" /\ check_win_condition(stacks)
    /\ pc' = "exit"
    /\ UNCHANGED <<stacks, original_stacks, previous_state, moves, last, run, steps>>

Quit ==
    /\ UNCHANGED not_session_vars
    /\ AtPrompt
    /\ pc' = "exit"
    /\ steps' = steps + 1
    /\ last' = "quit"
    /\ UNCHANGED <<stacks, original_stacks, previous_state, moves, run>>

\* RESET_COMMAND: stacks = deepcopy(original_stacks), nothing else.
Reset ==
    /\ UNCHANGED not_session_vars
    /\ AtPrompt
    /\ stacks' = original_stacks
    /\ steps' = steps + 1
    /\ last' = "reset"
    /\ run' = <<>>
    /\ UNCHANGED <<original_stacks, previous_state, moves, pc>>

\* HINT_COMMAND: provide_hint works on copies and prints.
Hint ==
    /\ UNCHANGED not_session_vars
    /\ AtPrompt
    /\ steps' = steps + 1
    /\ last' = "display"
    /\ run' = <<>>
    /\ UNCHANGED <<stacks, original_stacks, previous_state, moves, pc>>

NewGame ==
    /\ UNCHANGED not_session_vars
    /\ AtPrompt
    /\ \E board \in GeneratedBoards : initialize(board)
    /\ pc' = pc

\* INFO_COMMAND, COPYRIGHT, WARRANTY: text only.
Info ==
    /\ UNCHANGED not_session_vars
    /\ AtPrompt
    /\ steps' = steps + 1
    /\ last' = "display"
    /\ run' = <<>>
    /\ UNCHANGED <<stacks, original_stacks, previous_state, moves, pc>>

\* UNDO_COMMAND: if moves: moves.pop(); stacks = deepcopy(previous_state).
Undo ==
    /\ UNCHANGED not_session_vars
    /\ AtPrompt
    /\ IF moves # <<>>
       THEN /\ moves' = Front(moves)
            /\ stacks' = previous_state
       ELSE UNCHANGED <<moves, stacks>>
    /\ steps' = steps + 1
    /\ last' = "undo"
    /\ run' = <<>>
    /\ UNCHANGED <<original_stacks, previous_state, pc>>

\* parse_move splits on "-", so a tube number is never negative; every number
\* above the number of tubes raises the same IndexError.
TubeNumbers == 0 .. (Len(stacks) + 1)

\* A command of two tube numbers: parse_move, process_move, and the bookkeeping
\* of lines 89-97.  An IndexError is caught as invalid input.
MoveCmd(a, b) ==
    /\ UNCHANGED not_session_vars
    /\ AtPrompt
    /\ LET m == parse_move(a, b)
           r == process_move(stacks, m[1], m[2], previous_state)
       IN  IF r.raised
           THEN /\ steps' = steps + 1
                /\ last' = "invalid"
                /\ run' = <<>>
                /\ UNCHANGED <<stacks, previous_state, moves, pc>>
           ELSE IF r.diverges
           THEN /\ pc' = "hung"
                /\ stacks' = r.stacks
                /\ steps' = steps + 1
                /\ last' = "hang"
                /\ run' = <<>>
                /\ UNCHANGED <<previous_state, moves>>
           ELSE /\ stacks' = r.stacks
                /\ previous_state' = r.previous_state
                /\ moves' = IF r.flag THEN Append(moves, m) ELSE moves
                /\ steps' = steps + 1
                /\ last' = (IF r.flag THEN "pour" ELSE "rejected")
                /\ run' = IF r.flag
                          THEN LET e == [move |-> m, before |-> stacks]
                               IN  IF run = <<>> THEN <<e>> ELSE <<Last(run), e>>
                          ELSE <<>>
                /\ pc' = pc
    /\ UNCHANGED original_stacks

\* Any other text: parse_move raises ValueError, caught as invalid input.
InvalidInput ==
    /\ UNCHANGED not_session_vars
    /\ AtPrompt
    /\ steps' = steps + 1
    /\ last' = "invalid"
    /\ run' = <<>>
    /\ UNCHANGED <<stacks, original_stacks, previous_state, moves, pc>>

Next ==
    \/ WinNewGame
    \/ WinQuit
    \/ Quit
    \/ Reset
    \/ Hint
    \/ NewGame
    \/ Info
    \/ Undo
    \/ \E a, b \in TubeNumbers : MoveCmd(a, b)
    \/ InvalidInput

Spec == Init /\ [][Next]_vars

\* ------------------------------------------------- best_solve: the search loop

\* A call of best_solve on a sampled input; the session is not followed.
SolveInit ==
    /\ \E k \in 1 .. MaxSolves :
           /\ IsSolveInput(k)
           /\ initial_stacks = SolveInput(k)
    /\ queue = <<[stacks |-> initial_stacks, path |-> <<>>]>>
    /\ visited = {}
    /\ result = None
    /\ solve_pc = "loop"
    /\ stacks = initial_stacks
    /\ original_stacks = initial_stacks
    /\ previous_state = initial_stacks
    /\ moves = <<>>
    /\ pc = "solve"
    /\ last = "none"
    /\ run = <<>>
    /\ steps = 0
    /\ RateIdle
    /\ GenIdle

\* The dequeued state's key is in visited: continue.
SolveSkip ==
    /\ UNCHANGED not_solve_vars
    /\ solve_pc = "loop" /\ queue # <<>>
    /\ compress_state(Head(queue).stacks) \in visited
    /\ queue' = Tail(queue)
    /\ UNCHANGED <<initial_stacks, visited, result, solve_pc>>

\* The dequeued board is won: return path.
SolveWin ==
    /\ UNCHANGED not_solve_vars
    /\ solve_pc = "loop" /\ queue # <<>>
    /\ compress_state(Head(queue).stacks) \notin visited
    /\ check_win_condition(Head(queue).stacks)
    /\ queue' = Tail(queue)
    /\ visited' = visited \cup {compress_state(Head(queue).stacks)}
    /\ result' = Head(queue).path
    /\ solve_pc' = "done"
    /\ UNCHANGED initial_stacks

\* The dequeued board is new and not won: its successors are appended.
SolveExpand ==
    /\ UNCHANGED not_solve_vars
    /\ solve_pc = "loop" /\ queue # <<>>
    /\ compress_state(Head(queue).stacks) \notin visited
    /\ ~check_win_condition(Head(queue).stacks)
    /\ visited' = visited \cup {compress_state(Head(queue).stacks)}
    /\ queue' = Enqueue(Tail(queue),
                        Successors(Head(queue).stacks, Head(queue).path,
                                   get_valid_moves(Head(queue).stacks, None)))
    /\ UNCHANGED <<initial_stacks, result, solve_pc>>

\* The queue is empty: return None.
SolveExhausted ==
    /\ UNCHANGED not_solve_vars
    /\ solve_pc = "loop" /\ queue = <<>>
    /\ result' = None
    /\ solve_pc' = "done"
    /\ UNCHANGED <<initial_stacks, queue, visited>>

SolveNext ==
    \/ SolveSkip
    \/ SolveWin
    \/ SolveExpand
    \/ SolveExhausted

SolveSpec == SolveInit /\ [][SolveNext]_vars

\* ------------------------------------------------------- rate_solution: calls

\* No session is followed.
SessionIdle ==
    /\ stacks = <<>>
    /\ original_stacks = <<>>
    /\ previous_state = <<>>
    /\ moves = <<>>
    /\ pc = "off"
    /\ last = "none"
    /\ run = <<>>
    /\ steps = 0

\* A call of rate_solution with two move counts.
RateInit ==
    /\ user_moves \in 0 .. MaxRate
    /\ optimal_moves \in 0 .. MaxRate
    /\ rating = 0
    /\ rate_pc = "call"
    /\ SessionIdle
    /\ SolveIdle
    /\ GenIdle

RateReturn ==
    /\ rate_pc = "call"
    /\ rating' = rate_solution(user_moves, optimal_moves)
    /\ rate_pc' = "done"
    /\ UNCHANGED <<user_moves, optimal_moves, session_vars, solve_vars, gen_vars>>

RateNext == RateReturn

RateSpec == RateInit /\ [][RateNext]_vars

\* ---------------------------------------------- initialize_game: the draw loop

\* color_pool by colour. random.shuffle leaves the tokens in any order, and the
\* order shows only as they are popped: the pool is kept as counts, and a pop
\* takes any token left.
PoolOf(n) == [c \in Range(COLORS) |-> CountIn(color_pool(n), c)]

RECURSIVE PoolCount(_, _)
PoolCount(p, k) == IF k = 0 THEN 0 ELSE p[COLORS[k]] + PoolCount(p, k - 1)

\* len(color_pool)
PoolLen(p) == PoolCount(p, Len(COLORS))

\* The stacks the inner while loop can pop from the pool: MAX_STACK_SIZE tokens,
\* or all of them when fewer are left.
Draws(p) ==
    LET k == IF PoolLen(p) < MAX_STACK_SIZE THEN PoolLen(p) ELSE MAX_STACK_SIZE
    IN  {stack \in [1 .. k -> {c \in Range(COLORS) : p[c] > 0}] :
            \A c \in Range(stack) : CountIn(stack, c) <= p[c]}

PoolLess(p, stack) == [c \in Range(COLORS) |-> p[c] - CountIn(stack, c)]

\* initialize_game(num_stacks): the pool built, about to be shuffled.
GenInit ==
    /\ num_stacks \in MIN_STACKS .. MaxGenStacks
    /\ pool = PoolOf(num_stacks)
    /\ drawn = <<>>
    /\ gen_pc = "shuffle"
    /\ SessionIdle
    /\ SolveIdle
    /\ RateIdle

\* random.shuffle(color_pool), lines 40 and 53.
GenShuffle ==
    /\ gen_pc = "shuffle"
    /\ gen_pc' = "draw"
    /\ UNCHANGED <<num_stacks, pool, drawn, session_vars, solve_vars, rate_vars>>

\* Mutant of GenAccept: the uniformity of the stack is not tested.
GenAccept_NoUniformTest ==
    /\ gen_pc = "draw" /\ PoolLen(pool) > 0
    /\ \E stack \in Draws(pool) :
           /\ drawn' = Append(drawn, stack)
           /\ pool' = PoolLess(pool, stack)
    /\ UNCHANGED <<num_stacks, gen_pc, session_vars, solve_vars, rate_vars>>

\* One pass of the outer loop that pops a stack of more than one colour:
\* stacks.append(stack).
GenAccept ==
    /\ gen_pc = "draw" /\ PoolLen(pool) > 0
    /\ \E stack \in Draws(pool) :
           /\ ~Uniform(stack)
           /\ drawn' = Append(drawn, stack)
           /\ pool' = PoolLess(pool, stack)
    /\ UNCHANGED <<num_stacks, gen_pc, session_vars, solve_vars, rate_vars>>

\* One pass that pops a uniform stack: color_pool.extend(stack), then the
\* shuffle, then continue.
GenReject ==
    /\ gen_pc = "draw" /\ PoolLen(pool) > 0
    /\ \E stack \in Draws(pool) : Uniform(stack)
    /\ gen_pc' = "shuffle"
    /\ UNCHANGED <<num_stacks, pool, drawn, session_vars, solve_vars, rate_vars>>

\* The pool is empty: two empty stacks are appended and stacks is returned.
GenReturn ==
    /\ gen_pc = "draw" /\ PoolLen(pool) = 0
    /\ drawn' = drawn \o << <<>>, <<>> >>
    /\ gen_pc' = "done"
    /\ UNCHANGED <<num_stacks, pool, session_vars, solve_vars, rate_vars>>

GenNext ==
    \/ GenShuffle
    \/ GenAccept
    \/ GenReject
    \/ GenReturn

GenSpec == GenInit /\ [][GenNext]_vars

\* ------------------------------------------------------------ vocabulary of the claims

\* The 0-based tube indices of a board, and the indices parse_move can produce
\* for it (tube number 0 gives -1, a number past the last tube gives Len).
Indices(board) == 0 .. (Len(board) - 1)

ParsedIndices(board) == -1 .. Len(board)

Min(a, b) == IF a < b THEN a ELSE b

\* A move is legal: source # destination, source non-empty, destination not
\* full, destination empty or tops equal.
IsLegal(board, source, destination) ==
    LET src == board[source + 1]
        dst == board[destination + 1]
    IN  /\ source # destination
        /\ Len(src) > 0
        /\ Len(dst) < MAX_STACK_SIZE
        /\ (Len(dst) = 0 \/ src[Len(src)] = dst[Len(dst)])

\* Length of the maximal run of the top colour at the top of a non-empty tube.
TopRun(tube) ==
    CHOOSE k \in 1 .. Len(tube) :
        /\ \A i \in (Len(tube) - k + 1) .. Len(tube) : tube[i] = tube[Len(tube)]
        /\ (k = Len(tube) \/ tube[Len(tube) - k] # tube[Len(tube)])

\* A tube is complete: full, of one colour.
IsComplete(tube) == Len(tube) = MAX_STACK_SIZE /\ Cardinality(Range(tube)) = 1

IsWon(board) == \A t \in Range(board) : t = <<>> \/ IsComplete(t)

\* ------------------------------------------------------------------ claims

\* C1: token conservation. process_move, on the current board and any pair of
\* indices a command can give, leaves the multiset of tokens as it was, whether
\* it succeeds or fails; and every board of a session holds the tokens of the
\* generated board.
C1_TokenConservation ==
    /\ Tokens(stacks) = Tokens(original_stacks)
    /\ \A s, d \in ParsedIndices(stacks) :
           LET r == process_move(stacks, s, d, previous_state)
           IN  r.stacks = stacks \/ Tokens(r.stacks) = Tokens(stacks)

C1_Witness ==
    /\ last = "undo"
    /\ stacks # original_stacks
    /\ \E s, d \in Indices(stacks) : process_move(stacks, s, d, previous_state).flag
    /\ \E s, d \in Indices(stacks) : ~process_move(stacks, s, d, previous_state).flag

\* C2: capacity. Every tube of every board of a session, and of every board
\* process_move makes of one, has at most MAX_STACK_SIZE tokens.
C2_Capacity ==
    /\ \A i \in DOMAIN stacks : Len(stacks[i]) <= MAX_STACK_SIZE
    /\ \A s, d \in ParsedIndices(stacks) :
           LET r == process_move(stacks, s, d, previous_state)
           IN  \A i \in DOMAIN r.stacks : Len(r.stacks[i]) <= MAX_STACK_SIZE

\* A pour has just stopped because the destination became full while the source
\* still shows the same colour.
C2_Witness ==
    /\ last = "pour"
    /\ LET si == Resolve(stacks, Last(moves)[1])
           di == Resolve(stacks, Last(moves)[2])
       IN  /\ Len(stacks[di]) = MAX_STACK_SIZE
           /\ stacks[si] # <<>>
           /\ Last(stacks[si]) = Last(stacks[di])

\* C3: an illegal move is a no-op. For every pair of tube indices that is not
\* a legal move on the current board, process_move returns normally with
\* success False, the board as it was and the snapshot it was given; and the
\* session step of such a command leaves the board, the snapshot and the
\* move list as they were.
C3_IllegalMoveNoOp ==
    /\ [](\A s, d \in Indices(stacks) :
            ~IsLegal(stacks, s, d) =>
                LET r == process_move(stacks, s, d, previous_state)
                IN  /\ ~r.flag /\ ~r.raised /\ ~r.diverges
                    /\ r.stacks = stacks
                    /\ r.previous_state = previous_state)
    /\ [][\A s, d \in Indices(stacks) :
             (MoveCmd(s + 1, d + 1) /\ ~IsLegal(stacks, s, d)) =>
                 /\ stacks' = stacks
                 /\ previous_state' = previous_state
                 /\ moves' = moves
                 /\ last' = "rejected"]_vars

\* A move onto a different colour has been rejected after a pour, so the
\* snapshot differs from the board.
C3_Witness ==
    /\ last = "rejected"
    /\ previous_state # stacks
    /\ \E s, d \in Indices(stacks) :
           /\ s # d
           /\ stacks[s + 1] # <<>> /\ stacks[d + 1] # <<>>
           /\ Len(stacks[d + 1]) < MAX_STACK_SIZE
           /\ Last(stacks[s + 1]) # Last(stacks[d + 1])

\* C4: legality. For every pair of tube indices in 0 .. n-1, process_move
\* reports success exactly when the move is legal.
C4_SuccessIffLegal ==
    \A s, d \in Indices(stacks) :
        process_move(stacks, s, d, previous_state).flag = IsLegal(stacks, s, d)

\* After a pour, a board on which each of the four ways of being illegal occurs
\* beside a legal move.
C4_Witness ==
    /\ last = "pour"
    /\ \E s, d \in Indices(stacks) : IsLegal(stacks, s, d)
    /\ \E s, d \in Indices(stacks) : s # d /\ stacks[s + 1] = <<>>
    /\ \E s, d \in Indices(stacks) :
           s # d /\ stacks[s + 1] # <<>> /\ Len(stacks[d + 1]) = MAX_STACK_SIZE
    /\ \E s, d \in Indices(stacks) :
           /\ s # d
           /\ stacks[s + 1] # <<>> /\ stacks[d + 1] # <<>>
           /\ Len(stacks[d + 1]) < MAX_STACK_SIZE
           /\ Last(stacks[s + 1]) # Last(stacks[d + 1])

\* C5: run pour. A successful process_move relocates exactly
\* k = min(top run of the source, room in the destination) tokens, k >= 1, from
\* the top of the source to the top of the destination, and changes nothing else.
C5_RunPour ==
    \A s, d \in Indices(stacks) :
        LET r   == process_move(stacks, s, d, previous_state)
            src == stacks[s + 1]
            dst == stacks[d + 1]
        IN  r.flag =>
                LET k == Min(TopRun(src), MAX_STACK_SIZE - Len(dst))
                IN  /\ k >= 1
                    /\ r.stacks[s + 1] = SubSeq(src, 1, Len(src) - k)
                    /\ r.stacks[d + 1] = dst \o SubSeq(src, Len(src) - k + 1, Len(src))
                    /\ \A i \in DOMAIN stacks :
                           (i # s + 1 /\ i # d + 1) => r.stacks[i] = stacks[i]
                    /\ Len(r.stacks) = Len(stacks)

\* The board allows a pour of a run of two or more that the destination's room
\* cuts short, and one of a whole run of two or more.
C5_Witness ==
    /\ last = "pour"
    /\ \E s, d \in Indices(stacks) :
           /\ IsLegal(stacks, s, d)
           /\ MAX_STACK_SIZE - Len(stacks[d + 1]) < TopRun(stacks[s + 1])
    /\ \E s, d \in Indices(stacks) :
           /\ IsLegal(stacks, s, d)
           /\ TopRun(stacks[s + 1]) >= 2
           /\ TopRun(stacks[s + 1]) < Len(stacks[s + 1])
           /\ MAX_STACK_SIZE - Len(stacks[d + 1]) >= TopRun(stacks[s + 1])

\* Every tube of at most MAX_STACK_SIZE tokens of the first two colours, and
\* the boards of WinTubes such tubes.
SmallTubes ==
    UNION {[1 .. n -> {COLORS[1], COLORS[2]}] : n \in 0 .. MAX_STACK_SIZE}

SmallBoards == [1 .. WinTubes -> SmallTubes]

\* C6: win detection. check_win_condition is True exactly when every
\* non-empty tube is full and of one colour: on every board of a session and
\* on every small board, the all-empty one included. The statement about the
\* small boards does not depend on the state and is evaluated where steps = 0.
C6_WinDetection ==
    /\ check_win_condition(stacks) = IsWon(stacks)
    /\ (steps = 0) =>
          /\ \A b \in SmallBoards : check_win_condition(b) = IsWon(b)
          /\ \E b \in SmallBoards :
                 (\A i \in DOMAIN b : b[i] = <<>>) /\ check_win_condition(b)
          /\ \E b \in SmallBoards :
                 /\ \E i \in DOMAIN b : Len(b[i]) = MAX_STACK_SIZE /\ ~Uniform(b[i])
                 /\ ~check_win_condition(b)
          /\ \E b \in SmallBoards :
                 /\ \E i \in DOMAIN b :
                        b[i] # <<>> /\ Len(b[i]) < MAX_STACK_SIZE /\ Uniform(b[i])
                 /\ ~check_win_condition(b)

\* The session has reached a won board by a pour ...
C6_Witness ==
    /\ last = "pour"
    /\ check_win_condition(stacks)
    /\ \E i \in DOMAIN stacks : stacks[i] = <<>>
    /\ \E i \in DOMAIN stacks : Len(stacks[i]) = MAX_STACK_SIZE

\* C10: undo restores one step. When two successful pours M1, M2 were the last
\* two commands, an undo makes the board the one M2 found (not the one M1
\* found), and removes M2 from the move list, whose last entry is then M1.
C10_UndoOneStep ==
    [][(last' = "undo" /\ Len(run) = 2) =>
          /\ stacks' = run[2].before
          /\ stacks' # run[1].before
          /\ moves' = Front(moves)
          /\ Last(moves) = run[2].move
          /\ Last(moves') = run[1].move]_vars

\* Three commands were read, the third an undo that left one recorded move:
\* the first two were successful pours.
C10_Witness ==
    /\ steps = 3
    /\ last = "undo"
    /\ Len(moves) = 1
    /\ stacks # original_stacks

\* ------------------------------------------------- the solver's claims

\* The boards one legal pour away from a board of the set.
PourSuccessors(boards) ==
    UNION {{process_move(b, s, d, <<>>).stacks :
               <<s, d>> \in {m \in Indices(b) \X Indices(b) : IsLegal(b, m[1], m[2])}} :
           b \in boards}

\* Reference search, by levels over all legal pours: the least number of pours
\* from a board of the frontier to a won board, counted from depth; -1 if none.
RECURSIVE RefSearch(_, _, _)
RefSearch(frontier, seen, depth) ==
    IF \E b \in frontier : IsWon(b) THEN depth
    ELSE LET fresh == PourSuccessors(frontier) \ seen
         IN  IF fresh = {} THEN -1
             ELSE RefSearch(fresh, seen \cup fresh, depth + 1)

RefDist(board) == RefSearch({board}, {board}, 0)

\* The input is a board initialize_game returns for a 5-tube game.
IsFiveTubeGenerated(board) ==
    /\ Len(board) = 5
    /\ \E j \in DOMAIN ShuffleSamples :
           IsShuffleOutcome(j) /\ board = initialize_game(Shuffle(j))

C8_SolverSound ==
    (solve_pc = "done" /\ result # None) =>
        LET played == Replay(initial_stacks, result)
        IN  played.ok /\ check_win_condition(played.stacks)

\* A path returned for a board that was not won, which its replay wins.
C8_Witness ==
    /\ solve_pc = "done"
    /\ result # None
    /\ Len(result) >= 4
    /\ ~check_win_condition(initial_stacks)
    /\ check_win_condition(Replay(initial_stacks, result).stacks)

\* C9: a board generated for a 5-tube game is solved: best_solve returns a
\* path, not None, so len(best_solve(stacks)) at game start is defined.
C9_GeneratedSolvable ==
    (solve_pc = "done" /\ IsFiveTubeGenerated(initial_stacks)) => result # None

\* The call at the start of a 5-tube game has returned a path of five pours.
C9_Witness ==
    /\ solve_pc = "done"
    /\ IsFiveTubeGenerated(initial_stacks)
    /\ result # None
    /\ Len(result) = 5

\* ------------------------------------------------- the session's later claims

\* C11: a second undo is a no-op. An undo command read directly after another
\* undo leaves the board, the snapshot and the recorded move list as they were.
C11_SecondUndoNoOp ==
    [][(last = "undo" /\ last' = "undo") =>
          /\ stacks' = stacks
          /\ previous_state' = previous_state
          /\ moves' = moves]_vars

\* C12: reset. The reset command makes the board the board generated at game
\* start and empties the recorded move list; no command of a game changes the
\* original board.
C12_Reset ==
    [][/\ (last' = "reset" /\ steps' = steps + 1) =>
              (stacks' = original_stacks /\ moves' = <<>>)
       /\ (steps' = steps + 1) => original_stacks' = original_stacks]_vars

\* ------------------------------------------------- the rating's claims

Abs(x) == IF x < 0 THEN -x ELSE x

\* N is 5 * optimal / user rounded to the nearest integer, either neighbour
\* being accepted at an exact half.
IsNearest(N, user, optimal) == 2 * Abs(5 * optimal - N * user) <= user

\* C13: rating formula. For user_moves > optimal_moves >= 1, rate_solution
\* returns max(1, N), N being 5 * optimal_moves / user_moves rounded to the
\* nearest integer; rate(10, 5) is 3.
C13_RatingFormula ==
    (rate_pc = "done" /\ user_moves > optimal_moves /\ optimal_moves >= 1) =>
        /\ \E N \in 0 .. 5 :
               /\ IsNearest(N, user_moves, optimal_moves)
               /\ rating = (IF N < 1 THEN 1 ELSE N)
        /\ (user_moves = 10 /\ optimal_moves = 5) => rating = 3

\* C14: rating range. For all move counts >= 0, rate_solution returns an
\* integer in 1 .. 5, and 5 whenever user_moves <= optimal_moves.
C14_RatingRange ==
    rate_pc = "done" =>
        /\ rating \in 1 .. 5
        /\ (user_moves <= optimal_moves) => rating = 5

\* A call whose stars, 5 * optimal_moves / user_moves, are below 1 has returned.
C14_Witness ==
    /\ rate_pc = "done"
    /\ user_moves > 5 * optimal_moves
    /\ optimal_moves >= 1
    /\ rating = 1

\* ------------------------------------------------- the generator's claims

\* C15: generator postcondition. When initialize_game(n) has returned, the
\* board has n tubes: the first n-2 hold MAX_STACK_SIZE tokens each and none is
\* uniform, the last two are empty, and each of the first n-2 palette colours
\* occurs MAX_STACK_SIZE times (no other colour occurs).
C15_GeneratorPostcondition ==
    gen_pc = "done" =>
        /\ Len(drawn) = num_stacks
        /\ \A i \in 1 .. (num_stacks - 2) :
               Len(drawn[i]) = MAX_STACK_SIZE /\ ~Uniform(drawn[i])
        /\ drawn[num_stacks - 1] = <<>> /\ drawn[num_stacks] = <<>>
        /\ \A k \in DOMAIN COLORS :
               Tokens(drawn)[COLORS[k]] =
                   (IF k <= num_stacks - 2 THEN MAX_STACK_SIZE ELSE 0)

\* A board has been returned in which a tube holds three tokens of one colour
\* under a fourth of another.
C15_Witness ==
    /\ gen_pc = "done"
    /\ \E i \in 1 .. (num_stacks - 2) :
           /\ drawn[i][1] = drawn[i][2] /\ drawn[i][2] = drawn[i][3]
           /\ drawn[i][3] # drawn[i][4]

\* The pool can be exhausted: it is empty, or a stack of more than one colour
\* can be popped that leaves a pool which can be exhausted.
RECURSIVE CanExhaust(_)
CanExhaust(p) ==
    \/ PoolLen(p) = 0
    \/ \E stack \in Draws(p) : ~Uniform(stack) /\ CanExhaust(PoolLess(p, stack))

\* C16: generator termination. The draw / reject / reshuffle loop is never in
\* a state from which the pool cannot be exhausted.
C16_GeneratorTerminates ==
    gen_pc \in {"shuffle", "draw"} => CanExhaust(pool)

\* ------------------------------------------------- tube number 0

\* C17: tube numbers are validated. A move command whose two numbers are not
\* both in 1 .. n, the number 0 included, leaves the board, the snapshot and
\* the recorded move list as they were.
C17_TubeNumbersValidated ==
    [][\A a, b \in TubeNumbers :
          (MoveCmd(a, b) /\ ~(a \in 1 .. Len(stacks) /\ b \in 1 .. Len(stacks))) =>
              /\ stacks' = stacks
              /\ previous_state' = previous_state
              /\ moves' = moves]_vars

\* C18: move application terminates. On every board of a session and for
\* every pair of indices list indexing accepts, the index -1 of tube number 0
\* included, process_move returns.
C18_ProcessMoveTerminates ==
    \A source, destination \in -1 .. (Len(stacks) - 1) :
        ~process_move(stacks, source, destination, previous_state).diverges

\* ------------------------------------------------- reverse moves

\* A path holds a move directly followed by its reverse.
HasReversal(path) ==
    \E i \in 1 .. (Len(path) - 1) :
        path[i + 1][1] = path[i][2] /\ path[i + 1][2] = path[i][1]

\* C19: reverse-move pruning. No path on the search queue of best_solve holds
\* a move directly followed by its reverse.
C19_ReversePruning ==
    \A i \in DOMAIN queue : ~HasReversal(queue[i].path)

\* ------------------------------------------------- the move list

\* C20: the move list matches the board. At the prompt, replaying the recorded
\* moves in order with process_move on a copy of the original board succeeds
\* move by move and gives the current board.
C20_MovesMatchBoard ==
    pc = "play" =>
        LET r == Replay(original_stacks, moves)
        IN  r.ok /\ r.stacks = stacks

====
